---------------------------- MODULE Spec2Model ----------------------------
(***************************************************************************)
(* MovieMaster server: the movie catalogue, the watchlist and the integer  *)
(* id allocator, as a state machine over the MongoDB collections.          *)
(*                                                                         *)
(* Two server programs are modelled: src/unnamed/part_001 (the current     *)
(* server: integer ids, watchlist, counters) and src/index.js (the earlier *)
(* server: ObjectId keys only).  The variable app says which one runs.     *)
(*                                                                         *)
(* JavaScript strings are tuples of one-character strings, so that         *)
(* parseInt, trim, toLowerCase, slice and String(n) are computed and not   *)
(* assumed.  A JavaScript value is a record [t, n, s]: t is its type tag,  *)
(* n its number (when t = "num"), s its text (when t is "str" or "oid").   *)
(* The numbers that are no integers are n + 1/2 (t = "half") and NaN.      *)
(* null has the tag "null"; no stored field holds it.                      *)
(***************************************************************************)
EXTENDS Integers, Sequences, FiniteSets, TLC

-----------------------------------------------------------------------------
(* Bounds of the model. *)

\* how many requests the clients send in one run
MaxReqs == 3
\* the same, in the specification of all routes of both servers
MaxAllReqs == 2
\* the allocator is not stepped past this counter value
MaxId == 3

\* the request slots (requests in flight at the same time)
Procs == {"p1", "p2"}

-----------------------------------------------------------------------------
(* JavaScript values. *)

Undef == [t |-> "undef", n |-> 0, s |-> <<>>]
Num(k) == [t |-> "num", n |-> k, s |-> <<>>]
Str(cs) == [t |-> "str", n |-> 0, s |-> cs]
Oid(cs) == [t |-> "oid", n |-> 0, s |-> cs]
\* the fractional number k + 1/2
Half(k) == [t |-> "half", n |-> k, s |-> <<>>]
NotANumber == [t |-> "nan", n |-> 0, s |-> <<>>]

\* JavaScript truthiness: undefined, null, 0, NaN and "" are falsy; a
\* fraction n + 1/2 is not 0; an ObjectId is an object
Truthy(v) ==
  CASE v.t \in {"undef", "null", "nan"} -> FALSE
    [] v.t = "num" -> v.n # 0
    [] v.t = "str" -> v.s # <<>>
    [] OTHER -> TRUE

\* a || b
OrElse(a, b) == IF Truthy(a) THEN a ELSE b

\* twice the number, an integer: the order of the numbers that are not NaN
Twice(v) == IF v.t = "half" THEN 2 * v.n + 1 ELSE 2 * v.n

\* v + 1 of a number
AddOne(v) == IF v.t = "nan" THEN v ELSE [v EXCEPT !.n = @ + 1]

-----------------------------------------------------------------------------
(* Strings. *)

DigitChars == <<"0", "1", "2", "3", "4", "5", "6", "7", "8", "9">>

\* the letters that toLowerCase maps, in pairs: the 26 of ASCII, which are
\* also the digits 10 to 35 of parseInt, and those of Latin-1, the character
\* set of a header value
LowerLetters ==
  <<"a", "b", "c", "d", "e", "f", "g", "h", "i", "j", "k", "l", "m", "n", "o",
    "p", "q", "r", "s", "t", "u", "v", "w", "x", "y", "z",
    "à", "á", "â", "ã", "ä", "å", "æ", "ç", "è", "é", "ê", "ë", "ì", "í", "î",
    "ï", "ð", "ñ", "ò", "ó", "ô", "õ", "ö", "ø", "ù", "ú", "û", "ü", "ý", "þ">>
UpperLetters ==
  <<"A", "B", "C", "D", "E", "F", "G", "H", "I", "J", "K", "L", "M", "N", "O",
    "P", "Q", "R", "S", "T", "U", "V", "W", "X", "Y", "Z",
    "À", "Á", "Â", "Ã", "Ä", "Å", "Æ", "Ç", "È", "É", "Ê", "Ë", "Ì", "Í", "Î",
    "Ï", "Ð", "Ñ", "Ò", "Ó", "Ô", "Õ", "Ö", "Ø", "Ù", "Ú", "Û", "Ü", "Ý", "Þ">>

IndexIn(c, cs) ==
  IF \E i \in 1..Len(cs) : cs[i] = c
  THEN CHOOSE i \in 1..Len(cs) : cs[i] = c
  ELSE 0

\* the value of c as a digit of the radix, -1 when it is none
DigitVal(c, radix) ==
  LET d == IF IndexIn(c, DigitChars) > 0 THEN IndexIn(c, DigitChars) - 1
           ELSE IF IndexIn(c, LowerLetters) \in 1..26 THEN 9 + IndexIn(c, LowerLetters)
           ELSE IF IndexIn(c, UpperLetters) \in 1..26 THEN 9 + IndexIn(c, UpperLetters)
           ELSE -1
  IN IF d >= 0 /\ d < radix THEN d ELSE -1

\* the white space and line terminators of JavaScript that a string of the
\* model can hold: tab, line feed, vertical tab, form feed, carriage return,
\* space, no-break space, ogham space mark, byte order mark
IsSpace(c) ==
  c \in {"\t", "\n", "", "\f", "\r", " ", " ", " ", "﻿"}

RECURSIVE TrimLeft(_)
TrimLeft(cs) ==
  IF cs # <<>> /\ IsSpace(Head(cs)) THEN TrimLeft(Tail(cs)) ELSE cs

RECURSIVE TrimRight(_)
TrimRight(cs) ==
  IF cs # <<>> /\ IsSpace(cs[Len(cs)])
  THEN TrimRight(SubSeq(cs, 1, Len(cs) - 1))
  ELSE cs

\* String.prototype.trim
Trim(cs) == TrimRight(TrimLeft(cs))

LowerChar(c) ==
  IF IndexIn(c, UpperLetters) > 0 THEN LowerLetters[IndexIn(c, UpperLetters)]
  ELSE c

\* String.prototype.toLowerCase
ToLowerCase(cs) == [i \in 1..Len(cs) |-> LowerChar(cs[i])]

\* String.prototype.slice(-k)
SliceLast(cs, k) ==
  IF Len(cs) <= k THEN cs ELSE SubSeq(cs, Len(cs) - k + 1, Len(cs))

RECURSIVE ParseDigits(_, _, _, _)
ParseDigits(cs, radix, acc, any) ==
  IF cs = <<>> \/ DigitVal(Head(cs), radix) < 0
  THEN [nan |-> ~any, n |-> acc]
  ELSE ParseDigits(Tail(cs), radix, acc * radix + DigitVal(Head(cs), radix), TRUE)

\* parseInt(cs, radix): leading white space, a sign, with radix 16 the prefix
\* 0x or 0X, then the longest prefix of digits; NaN when there is no digit
ParseInt(cs, radix) ==
  LET t == TrimLeft(cs)
      neg == t # <<>> /\ Head(t) = "-"
      signed == IF t # <<>> /\ Head(t) \in {"-", "+"} THEN Tail(t) ELSE t
      body == IF radix = 16 /\ Len(signed) >= 2 /\ signed[1] = "0"
                   /\ signed[2] \in {"x", "X"}
              THEN Tail(Tail(signed)) ELSE signed
      r == ParseDigits(body, radix, 0, FALSE)
  IN [nan |-> r.nan, n |-> IF neg THEN 0 - r.n ELSE r.n]

RECURSIVE NatToStr(_)
NatToStr(k) ==
  IF k < 10 THEN <<DigitChars[k + 1]>>
  ELSE NatToStr(k \div 10) \o <<DigitChars[(k % 10) + 1]>>

\* String(k) of an integer
NumToStr(k) == IF k < 0 THEN <<"-">> \o NatToStr(0 - k) ELSE NatToStr(k)

\* String(v) of a value; the text of an ObjectId is its hexadecimal form
StringOf(v) ==
  CASE v.t = "num" -> NumToStr(v.n)
    [] v.t = "half" ->
         (IF v.n < 0 THEN <<"-">> \o NatToStr(0 - v.n - 1) ELSE NatToStr(v.n))
           \o <<".", "5">>
    [] v.t = "nan" -> <<"N", "a", "N">>
    [] v.t = "undef" -> <<"u", "n", "d", "e", "f", "i", "n", "e", "d">>
    [] v.t = "null" -> <<"n", "u", "l", "l">>
    [] OTHER -> v.s

IsHex(cs) == \A i \in 1..Len(cs) : DigitVal(cs[i], 16) >= 0

\* ObjectId.isValid of a string: 24 hexadecimal characters
ObjectIdIsValid(cs) == Len(cs) = 24 /\ IsHex(cs)

\* new ObjectId(cs): the key the 24 hexadecimal characters name
NewObjectId(cs) == Oid(ToLowerCase(cs))

-----------------------------------------------------------------------------
(* Documents and collections.  A collection is the sequence of its documents *)
(* in insertion order, the order findOne, updateOne and deleteOne scan.      *)

MovieFields == {"_id", "id", "addedBy", "title", "createdAt", "updatedAt"}

\* a movie document as it is first stored, updatedAt being createdAt; Undef
\* in a field says the document has no such field
Movie(key, id, addedBy, title, createdAt) ==
  [_id |-> key, id |-> id, addedBy |-> addedBy, title |-> title,
   createdAt |-> createdAt, updatedAt |-> createdAt]

\* null, as findOne returns it: no document, which is not a document without
\* fields
NoDoc == [f \in MovieFields |-> [t |-> "null", n |-> 0, s |-> <<>>]]

\* a watchlist entry: movieId is a number, movieKey a text, snap the title of
\* its movieSnapshot
Entry(userEmail, movieId, movieKey, createdAt, snap) ==
  [userEmail |-> userEmail, movieId |-> movieId, movieKey |-> movieKey,
   createdAt |-> createdAt, snap |-> snap]

NoEntry == Entry(<<>>, Undef, <<>>, Undef, Undef)

\* a query is a set of clauses, one per alternative of its $or; a clause gives
\* for each field it names the values it accepts (one value, or those of $in)
Matches(doc, query) ==
  \E clause \in query : \A f \in DOMAIN clause : doc[f] \in clause[f]

\* the positions of the documents the query matches
Indexes(coll, query) == {i \in 1..Len(coll) : Matches(coll[i], query)}

Min(S) == CHOOSE x \in S : \A y \in S : x <= y
Max(S) == CHOOSE x \in S : \A y \in S : x >= y

\* collection.findOne(query): the first matching document, or null
FindOne(coll, query, none) ==
  IF Indexes(coll, query) = {} THEN none ELSE coll[Min(Indexes(coll, query))]

\* collection.find(query).toArray(): the matching documents
Find(coll, query) ==
  LET Hit(doc) == Matches(doc, query)
  IN SelectSeq(coll, Hit)

RemoveAt(coll, i) == SubSeq(coll, 1, i - 1) \o SubSeq(coll, i + 1, Len(coll))

\* collection.deleteOne(query): the first matching document goes
DeleteOne(coll, query) ==
  IF Indexes(coll, query) = {} THEN coll
  ELSE RemoveAt(coll, Min(Indexes(coll, query)))

\* { $set: payload } applied to a document: the payload's fields are written
ApplySet(doc, payload) ==
  [f \in MovieFields |-> IF payload[f] = Undef THEN doc[f] ELSE payload[f]]

\* collection.updateOne(query, { $set: payload }): the first match is written
UpdateOne(coll, query, payload) ==
  IF Indexes(coll, query) = {} THEN coll
  ELSE [coll EXCEPT ![Min(Indexes(coll, query))] = ApplySet(@, payload)]

\* moviesCollection.insertOne(doc): the _id index is unique (E11000 otherwise)
InsertMovie(coll, doc) ==
  IF \E i \in 1..Len(coll) : coll[i]._id = doc._id
  THEN [ok |-> FALSE, coll |-> coll]
  ELSE [ok |-> TRUE, coll |-> Append(coll, doc)]

\* watchlistCollection.insertOne(entry): when bootstrap's createIndex
\* succeeded, the index { userEmail: 1, movieKey: 1 } is unique (E11000
\* otherwise); when it failed, the server runs without the index
InsertWatch(coll, e, unique) ==
  IF unique /\ \E i \in 1..Len(coll) :
                 coll[i].userEmail = e.userEmail /\ coll[i].movieKey = e.movieKey
  THEN [ok |-> FALSE, coll |-> coll]
  ELSE [ok |-> TRUE, coll |-> Append(coll, e)]

-----------------------------------------------------------------------------
(* Identifier reconciliation. *)

\* parseInt(text.slice(-8), 16), 1 when that is NaN or not positive
HexSuffixId(cs) ==
  LET r == ParseInt(SliceLast(cs, 8), 16)
  IN IF r.nan \/ r.n <= 0 THEN 1 ELSE r.n

\* Math.max(1, Math.floor(Number(k)) || 1) of an integer k
ClampId(k) == IF k = 0 THEN 1 ELSE IF k < 1 THEN 1 ELSE k

\* the integer that convertMovieToIntegerId gives the record, for a record
\* whose id (or else _id) is no fractional number
ConvertedId(movie) ==
  LET id == OrElse(movie.id, movie._id)
  IN CASE id.t = "num" -> id.n
       [] id.t = "oid" ->
            IF Truthy(movie.id) /\ movie.id.t = "num" THEN ClampId(movie.id.n)
            ELSE ClampId(HexSuffixId(id.s))
       [] id.t = "str" ->
            LET parsed == ParseInt(id.s, 10)
            IN IF ~parsed.nan /\ parsed.n > 0 THEN ClampId(parsed.n)
               ELSE IF Len(id.s) = 24 THEN ClampId(HexSuffixId(id.s))
               ELSE ClampId(1)
       [] OTHER -> ClampId(1)

\* the value that convertMovieToIntegerId gives the record: a number that is
\* not NaN is returned as it is, everything else as the integer derived
ConvertedValue(movie) ==
  IF OrElse(movie.id, movie._id).t \in {"num", "half"}
  THEN OrElse(movie.id, movie._id)
  ELSE Num(ConvertedId(movie))

\* convertMovieToIntegerId(movie): null for null, else the record with _id
\* and id set to that value
convertMovieToIntegerId(movie) ==
  IF movie = NoDoc THEN NoDoc
  ELSE [movie EXCEPT !._id = ConvertedValue(movie), !.id = ConvertedValue(movie)]

\* the queries findMovieByIdentifier tries, in order
FindStages == 1..5

\* whether findMovieByIdentifier issues the query of this stage for the parameter
StageApplies(idParam, stage) ==
  LET identifier == Trim(idParam)
      numericId == ParseInt(identifier, 10)
  IN /\ identifier # <<>>
     /\ CASE stage \in {1, 2} -> ~numericId.nan /\ numericId.n > 0
          [] stage = 3 -> ObjectIdIsValid(identifier)
          [] OTHER -> TRUE

\* the document the query of this stage finds in the collection
StageQuery(coll, idParam, stage) ==
  LET identifier == Trim(idParam)
      numericId == ParseInt(identifier, 10).n
  IN CASE stage = 1 -> FindOne(coll, {[id |-> {Num(numericId)}]}, NoDoc)
       [] stage = 2 -> FindOne(coll, {[_id |-> {Num(numericId)}]}, NoDoc)
       [] stage = 3 -> FindOne(coll, {[_id |-> {NewObjectId(identifier)}]}, NoDoc)
       [] stage = 4 -> FindOne(coll, {[_id |-> {Str(identifier)}]}, NoDoc)
       [] OTHER -> FindOne(coll, {[id |-> {Str(identifier)}]}, NoDoc)

\* the first stage after `stage` whose query is issued, 0 when there is none
NextStage(idParam, stage) ==
  LET later == {s \in FindStages : s > stage /\ StageApplies(idParam, s)}
  IN IF later = {} THEN 0 ELSE Min(later)

\* findMovieByIdentifier(collection, idParam) when nothing is written between
\* its queries: the result of the first query that finds a document
findMovieByIdentifier(coll, idParam) ==
  LET hits == {s \in FindStages :
                 StageApplies(idParam, s) /\ StageQuery(coll, idParam, s) # NoDoc}
  IN IF hits = {} THEN NoDoc ELSE StageQuery(coll, idParam, Min(hits))

\* buildWatchlistIdentifierCandidates(idParam)
buildWatchlistIdentifierCandidates(idParam) ==
  LET identifier == Trim(idParam)
      numericId == ParseInt(identifier, 10)
      valid == ~numericId.nan /\ numericId.n > 0
  IN [numericCandidates |-> IF valid THEN {numericId.n} ELSE {},
      keyCandidates |-> (IF valid THEN {NumToStr(numericId.n)} ELSE {})
                          \cup (IF identifier # <<>> THEN {identifier} ELSE {})]


-----------------------------------------------------------------------------
(* Requests, routes and responses. *)

\* the values of the x-user-email header: absent, empty, and three addresses
\* of which "A" and "a" differ by case only
AuthHeaders == {Str(<<"a">>), Str(<<"A">>), Str(<<"b">>)}
Headers == {Undef, Str(<<>>)} \cup AuthHeaders

\* the ObjectId keys the driver generates for documents stored without _id
OidPool == << <<"1", "a", "0", "0", "0", "0", "0", "0", "0", "0", "0", "0",
                "0", "0", "0", "0", "0", "0", "0", "0", "0", "0", "0", "2">>,
              <<"b", "0", "0", "0", "0", "0", "0", "0", "0", "0", "0", "0",
                "0", "0", "0", "0", "0", "0", "0", "0", "0", "0", "0", "1">> >>

\* the :id and :movieId path parameters
Params == {<<"1">>, <<"2">>, OidPool[1]}

\* a request body without fields
NoBody == [f \in MovieFields |-> Undef]

\* request bodies: a movie to add, and two update payloads, the second of
\* which also names the owner and the identity fields
AddBody == [NoBody EXCEPT !.title = Str(<<"x">>)]
PlainUpdate == [NoBody EXCEPT !.title = Str(<<"y">>)]
IdentityUpdate ==
  [NoBody EXCEPT !._id = Num(2), !.id = Num(2), !.addedBy = Str(<<"b">>),
                 !.title = Str(<<"y">>)]
UpdateBodies == {PlainUpdate, IdentityUpdate}

\* a request: the route its client means, the x-user-email header, the path
\* parameter and the body
Req(kind, hdr, param, body) ==
  [kind |-> kind, hdr |-> hdr, param |-> param, body |-> body]

NoReq == Req("none", Undef, <<>>, NoBody)

Adds(hdrs) == {Req("add", h, <<>>, AddBody) : h \in hdrs}
Gets(params) == {Req("get", Undef, q, NoBody) : q \in params}
Updates(hdrs, params, bodies) ==
  {Req("update", h, q, b) : h \in hdrs, q \in params, b \in bodies}
Plain(kinds, hdrs) == {Req(k, h, <<>>, NoBody) : k \in kinds, h \in hdrs}
Others(kinds, hdrs, params) ==
  {Req(k, h, q, NoBody) : k \in kinds, h \in hdrs, q \in params}

\* the requests of the specification of all routes
Requests ==
  Adds(Headers) \cup Gets(Params) \cup Updates(Headers, Params, {PlainUpdate})
    \cup Plain({"mine", "wllist"}, Headers)
    \cup Others({"delete", "wladd", "wlremove", "wlstatus"}, Headers, Params)

\* the requests sent to src/index.js
RequestsV1 ==
  Adds(Headers) \cup Gets(Params) \cup Updates(Headers, Params, UpdateBodies)
    \cup Plain({"mine"}, Headers) \cup Others({"delete"}, Headers, Params)

\* the requests of the specification of the movie writers
RequestsMovies ==
  LET hdrs == {Str(<<"a">>), Str(<<"b">>)}
      params == {<<"1">>, <<"2">>}
  IN Adds(hdrs) \cup Updates(hdrs, params, UpdateBodies)
       \cup Others({"delete"}, hdrs, params)

\* the requests of the specification of the watchlist; a remove or a status
\* request may also carry a blank parameter (DELETE /watchlist/%20)
RequestsWatch ==
  Others({"wladd", "wlremove", "wlstatus"}, AuthHeaders, Params)
    \cup Others({"wlremove", "wlstatus"}, AuthHeaders, {<<" ">>})

\* the requests of the sequential client
RequestsSeq ==
  LET hdrs == {Str(<<"A">>), Str(<<"b">>)}
  IN Adds(hdrs) \cup Gets(Params) \cup Others({"delete", "wladd"}, hdrs, Params)

\* the method, the path up to its last segment, and the last segment
Path(method, prefix, seg) == [method |-> method, prefix |-> prefix, seg |-> seg]

AddSegment == <<"a", "d", "d">>
MyCollectionSegment ==
  <<"m", "y", "-", "c", "o", "l", "l", "e", "c", "t", "i", "o", "n">>

\* the URL a client requests for the route it means
PathOf(r) ==
  CASE r.kind = "add" -> Path("POST", "/movies/", AddSegment)
    [] r.kind = "mine" -> Path("GET", "/movies/", MyCollectionSegment)
    [] r.kind = "list" -> Path("GET", "/movies", <<>>)
    [] r.kind = "user" -> Path("POST", "/users/create-or-update", <<>>)
    [] r.kind = "get" -> Path("GET", "/movies/", r.param)
    [] r.kind = "update" -> Path("PUT", "/movies/update/", r.param)
    [] r.kind = "delete" -> Path("DELETE", "/movies/", r.param)
    [] r.kind = "wllist" -> Path("GET", "/watchlist", <<>>)
    [] r.kind = "wladd" -> Path("POST", "/watchlist/", r.param)
    [] r.kind = "wlremove" -> Path("DELETE", "/watchlist/", r.param)
    [] OTHER -> Path("GET", "/watchlist/status/", r.param)

\* a registered route: its last segment is a literal, a parameter or absent
Route(method, prefix, pat, lit, auth, handler) ==
  [method |-> method, prefix |-> prefix, pat |-> pat, lit |-> lit,
   auth |-> auth, handler |-> handler]

NoRoute == Route("", "", "none", <<>>, FALSE, "none")

\* the routes of src/unnamed/part_001 in the order bootstrap registers them
Routes ==
  << Route("POST", "/users/create-or-update", "none", <<>>, FALSE, "user"),
     Route("GET", "/movies", "none", <<>>, FALSE, "list"),
     Route("POST", "/movies/", "lit", AddSegment, TRUE, "add"),
     Route("GET", "/movies/", "lit", MyCollectionSegment, TRUE, "mine"),
     Route("GET", "/watchlist", "none", <<>>, TRUE, "wllist"),
     Route("POST", "/watchlist/", "param", <<>>, TRUE, "wladd"),
     Route("DELETE", "/watchlist/", "param", <<>>, TRUE, "wlremove"),
     Route("GET", "/watchlist/status/", "param", <<>>, TRUE, "wlstatus"),
     Route("GET", "/movies/", "param", <<>>, FALSE, "get"),
     Route("PUT", "/movies/update/", "param", <<>>, TRUE, "update"),
     Route("DELETE", "/movies/", "param", <<>>, TRUE, "delete") >>

\* the routes of src/index.js in the order bootstrap registers them
RoutesV1 ==
  << Route("GET", "/movies/", "param", <<>>, FALSE, "get"),
     Route("POST", "/movies/", "lit", AddSegment, TRUE, "add"),
     Route("GET", "/movies/", "lit", MyCollectionSegment, TRUE, "mine"),
     Route("PUT", "/movies/update/", "param", <<>>, TRUE, "update"),
     Route("DELETE", "/movies/", "param", <<>>, TRUE, "delete") >>

RouteMatches(route, path) ==
  /\ route.method = path.method
  /\ route.prefix = path.prefix
  /\ CASE route.pat = "lit" -> path.seg = route.lit
       [] route.pat = "param" -> path.seg # <<>>
       [] OTHER -> path.seg = <<>>

\* Express runs the first registered route that matches the URL
Routed(routes, path) ==
  LET hits == {i \in 1..Len(routes) : RouteMatches(routes[i], path)}
  IN IF hits = {} THEN NoRoute ELSE routes[Min(hits)]

\* an item of a list response: the movie, the isMissing flag, watchlistedAt
Item(doc, missing, at) == [doc |-> doc, missing |-> missing, at |-> at]

\* a response: the handler that sent it, the status, the message, and of the
\* body the number (id, matchedCount), the movie, the flag (alreadyExists,
\* isWatchlisted) and the list
Resp(kind, status, msg, n, doc, flag, list) ==
  [kind |-> kind, status |-> status, msg |-> msg, n |-> n, doc |-> doc,
   flag |-> flag, list |-> list]

NoResp == Resp("none", 0, "", 0, NoDoc, FALSE, <<>>)

\* the locals of a request in flight: the stage of findMovieByIdentifier, the
\* movie it found, the id the allocator computed, the time the handler took
\* with new Date(), and the watchlist entries it read
Locals(stage, doc, n, now, entries) ==
  [stage |-> stage, doc |-> doc, n |-> n, now |-> now, entries |-> entries]

NoLocals == Locals(0, NoDoc, Undef, 0, <<>>)

\* requireAuth: whether the header lets the request through
requireAuth(hdr) == Truthy(hdr)

\* (req.userEmail || "").toLowerCase()
MovieEmail(hdr) == ToLowerCase(OrElse(hdr, Str(<<>>)).s)

\* (req.userEmail || "").trim().toLowerCase()
WatchEmail(hdr) == ToLowerCase(Trim(OrElse(hdr, Str(<<>>)).s))

\* (existing.addedBy || "").toLowerCase()
OwnerEmail(doc) == ToLowerCase(OrElse(doc.addedBy, Str(<<>>)).s)

IsOwnerAnyone(doc, hdr) == TRUE

\* the ownership test of update and delete in src/unnamed/part_001
IsOwner(doc, hdr) == OwnerEmail(doc) = MovieEmail(hdr)

\* the ownership test of update and delete in src/index.js
IsOwnerV1(doc, hdr) == doc.addedBy = hdr

StripPayloadOwnerOnly(body) == [body EXCEPT !.addedBy = Undef]

\* the payload of an update without the fields it may not change
StripPayload(body) == [body EXCEPT !.addedBy = Undef, !._id = Undef, !.id = Undef]

StripPayloadV1(body) == [body EXCEPT !.addedBy = Undef, !._id = Undef]

\* existing.id ? { id: existing.id } : { _id: existing._id }
WriteQuery(existing) ==
  IF Truthy(existing.id) THEN {[id |-> {existing.id}]}
  ELSE {[_id |-> {existing._id}]}

NewMovieRawOwner(nextId, hdr, body, now) ==
  Movie(nextId, nextId, hdr, body.title, Num(now))

\* the document POST /movies/add stores under the number the allocator gave
NewMovie(nextId, hdr, body, now) ==
  Movie(nextId, nextId, Str(MovieEmail(hdr)), body.title, Num(now))

\* the document POST /movies/add of src/index.js stores: it has no id and no
\* updatedAt
NewMovieV1(oid, hdr, body, now) ==
  [Movie(Oid(oid), Undef, hdr, body.title, Num(now)) EXCEPT !.updatedAt = Undef]

NewEntryRawEmail(hdr, converted, now) ==
  Entry(hdr.s, converted.id, StringOf(converted.id), Num(now), converted.title)

\* the entry POST /watchlist/:movieId builds for the converted movie:
\* movieId is Number(converted.id), movieKey is String(converted.id)
NewEntry(hdr, converted, now) ==
  Entry(WatchEmail(hdr), converted.id, StringOf(converted.id), Num(now),
        converted.title)

WatchQueryAnyUser(hdr, idParam) ==
  LET c == buildWatchlistIdentifierCandidates(idParam)
  IN {[movieId |-> {Num(k) : k \in c.numericCandidates}],
      [movieKey |-> c.keyCandidates]}

\* the filter of DELETE /watchlist/:movieId and GET /watchlist/status/:movieId
WatchQuery(hdr, idParam) ==
  LET c == buildWatchlistIdentifierCandidates(idParam)
  IN {[userEmail |-> {WatchEmail(hdr)},
       movieId |-> {Num(k) : k \in c.numericCandidates}],
      [userEmail |-> {WatchEmail(hdr)}, movieKey |-> c.keyCandidates]}

\* the ids that find({ id: { $type: "number" } }) matches: integers,
\* fractions and NaN
NumericIds(coll) ==
  {coll[i].id : i \in {j \in 1..Len(coll) : coll[j].id.t \in {"num", "half", "nan"}}}

FallbackIdOfHighest(coll) ==
  LET ids == NumericIds(coll)
      Below(w, v) == w.t = "nan" \/ (v.t # "nan" /\ Twice(w) <= Twice(v))
  IN IF ids = {} THEN Num(1)
     ELSE CHOOSE v \in ids : \A w \in ids : Below(w, v)

\* highestMovie ? highestMovie.id + 1 : 1, highestMovie being the first of
\* sort({ id: -1 }), in which NaN is below every other number
FallbackId(coll) ==
  LET ids == NumericIds(coll)
      Below(w, v) == w.t = "nan" \/ (v.t # "nan" /\ Twice(w) <= Twice(v))
  IN IF ids = {} THEN Num(1)
     ELSE AddOne(CHOOSE v \in ids : \A w \in ids : Below(w, v))

IncrementedStuck(ctr) == IF ctr = <<>> THEN <<Num(1)>> ELSE ctr

\* the counter after { $inc: { sequence_value: 1 } } with upsert
Incremented(ctr) == IF ctr = <<>> THEN <<Num(1)>> ELSE <<AddOne(ctr[1])>>

\* cursor.sort({ createdAt: -1 }): newest first, documents without the field
\* last, equal ones in the order of the collection
SortNewest(coll) ==
  LET Key(i) == IF coll[i].createdAt.t = "num" THEN coll[i].createdAt.n ELSE -1
      Before(j, i) == Key(j) > Key(i) \/ (Key(j) = Key(i) /\ j < i)
      Rank(i) == Cardinality({j \in 1..Len(coll) : Before(j, i)}) + 1
  IN [k \in 1..Len(coll) |-> coll[CHOOSE i \in 1..Len(coll) : Rank(i) = k]]

\* the list GET /movies/my-collection sends: the converted movies whose _id
\* is truthy and a number above 0
MyCollection(coll, hdr) ==
  LET emailsToMatch == {hdr, Str(ToLowerCase(hdr.s))}
      Valid(d) == Truthy(d._id) /\ Twice(d._id) > 0
      found == SortNewest(Find(coll, {[addedBy |-> emailsToMatch]}))
      converted == [i \in 1..Len(found) |-> convertMovieToIntegerId(found[i])]
      kept == SelectSeq(converted, Valid)
  IN [i \in 1..Len(kept) |-> Item(kept[i], FALSE, Undef)]

\* the list GET /movies/my-collection of src/index.js sends
MyCollectionV1(coll, hdr) ==
  LET found == SortNewest(Find(coll, {[addedBy |-> {hdr}]}))
  IN [i \in 1..Len(found) |-> Item(found[i], FALSE, Undef)]

\* the entries GET /watchlist reads for the user, newest first
UserEntries(coll, hdr) ==
  SortNewest(Find(coll, {[userEmail |-> {WatchEmail(hdr)}]}))

\* the movies GET /watchlist reads for the entries
EntryMovies(coll, entries) ==
  LET numericIds == {entries[i].movieId :
                       i \in {j \in 1..Len(entries) :
                                /\ entries[j].movieId.t \in {"num", "half"}
                                /\ Twice(entries[j].movieId) > 0}}
      stringIds == {Str(entries[i].movieKey) :
                      i \in {j \in 1..Len(entries) : entries[j].movieKey # <<>>}}
  IN Find(coll, {[id |-> numericIds], [_id |-> numericIds],
                 [_id |-> stringIds], [id |-> stringIds]})

\* the movies that convertedMap holds, in the order they were set
ConvertedMap(fromDb) ==
  [i \in 1..Len(fromDb) |-> convertMovieToIntegerId(fromDb[i])]

\* convertedMap.get(key): the movie set last under the key; a movie is set
\* under String(_id) when its _id is truthy
MapGet(convertedMap, key) ==
  LET hits == {i \in 1..Len(convertedMap) :
                 /\ Truthy(convertedMap[i]._id)
                 /\ StringOf(convertedMap[i]._id) = key}
  IN IF hits = {} THEN NoDoc ELSE convertedMap[Max(hits)]

\* what GET /watchlist sends for an entry: the converted movie found under
\* the entry's movieKey or else under String(movieId), or the entry's
\* snapshot marked isMissing, with movieKey || movieId as _id and id
EntryItem(convertedMap, e) ==
  LET fallbackKey == IF e.movieId = Undef THEN <<>> ELSE StringOf(e.movieId)
      key == OrElse(Str(e.movieKey), e.movieId)
  IN IF MapGet(convertedMap, e.movieKey) # NoDoc
     THEN Item(MapGet(convertedMap, e.movieKey), FALSE, e.createdAt)
     ELSE IF MapGet(convertedMap, fallbackKey) # NoDoc
     THEN Item(MapGet(convertedMap, fallbackKey), FALSE, e.createdAt)
     ELSE Item(Movie(key, key, Undef, e.snap, Undef), TRUE, e.createdAt)

\* the list GET /watchlist sends
WatchlistItems(fromDb, entries) ==
  [i \in 1..Len(entries) |-> EntryItem(ConvertedMap(fromDb), entries[i])]

-----------------------------------------------------------------------------
(* The state. *)

VARIABLES
  app,          \* which server runs: "part_001" or "index"
  driverValue,  \* whether findOneAndUpdate's result carries the document in .value
  indexed,      \* whether bootstrap's createIndex on the watchlists succeeded
  seed,         \* which database the server started on
  movies,       \* the movies collection
  watchlists,   \* the watchlists collection
  users,        \* the users collection
  counters,     \* the counters collection: <<>> or <<sequence_value>> of "movieId"
  oidGen,       \* how many ObjectId keys the driver has generated
  clock,        \* the time new Date() gives next
  pc,           \* per request slot: where the request stands
  req,          \* per request slot: the request
  loc,          \* per request slot: the handler's locals
  last,         \* the response sent last
  nreq,         \* how many requests were sent
  client,       \* history of the sequential client: its last two requests
  issued,       \* history: the values getNextMovieId returned
  created,      \* history: the movies POST /movies/add answered 201 for
  lost,         \* history: whether the counter document was ever removed
  recovered,    \* history: the value getNextMovieId last set the counter to, Undef
                \* when it never did or the counter document was removed since
  thrown        \* history: the codes of the errors that storage calls threw

vars == <<app, driverValue, indexed, seed, movies, watchlists, users, counters, oidGen,
          clock, pc, req, loc, last, nreq, client, issued, created, lost,
          recovered, thrown>>

config == <<app, driverValue, indexed, seed>>
colls == <<movies, watchlists, users, counters, oidGen>>
store == <<colls, clock>>
hist == <<client, issued, created, lost, recovered, thrown>>

\* the databases a server starts on: an empty one; one that src/index.js
\* filled (a movie keyed by ObjectId, owned by "A"); ones that
\* src/unnamed/part_001 filled
SeedMovies(name) ==
  CASE name = "empty" -> <<>>
    [] name = "legacy" -> <<NewMovieV1(OidPool[1], Str(<<"A">>), AddBody, 1)>>
    [] name = "current" -> <<NewMovie(Num(1), Str(<<"a">>), AddBody, 1)>>
    [] name = "catalog" ->
         <<NewMovie(Num(1), Str(<<"a">>), AddBody, 1),
           NewMovie(Num(2), Str(<<"b">>), AddBody, 2)>>
    [] OTHER ->
         <<NewMovieV1(OidPool[1], Str(<<"A">>), AddBody, 1),
           NewMovie(Num(2), Str(<<"b">>), AddBody, 2)>>

SeedCounters(name) ==
  CASE name \in {"empty", "legacy"} -> <<>>
    [] name = "current" -> <<Num(1)>>
    [] OTHER -> <<Num(2)>>

SeedOidGen(name) == IF name \in {"legacy", "mixed"} THEN 1 ELSE 0

\* the client's history: the request in hand, the one before it with its
\* response, and the watchlist as it was when the request in hand was sent
Client(cur, prevReq, prevResp, snap) ==
  [cur |-> cur, prevReq |-> prevReq, prevResp |-> prevResp, snap |-> snap]

InitOn(a, seeds) ==
  /\ app = a
  /\ seed \in seeds
  /\ movies = SeedMovies(seed)
  /\ counters = SeedCounters(seed)
  /\ oidGen = SeedOidGen(seed)
  /\ clock = Len(SeedMovies(seed)) + 1
  /\ watchlists = <<>>
  /\ users = <<>>
  /\ pc = [p \in Procs |-> "idle"]
  /\ req = [p \in Procs |-> NoReq]
  /\ loc = [p \in Procs |-> NoLocals]
  /\ last = NoResp
  /\ nreq = 0
  /\ client = Client(NoReq, NoReq, NoResp, <<>>)
  /\ issued = {}
  /\ created = {}
  /\ lost = FALSE
  /\ recovered = Undef
  /\ thrown = <<>>

\* src/unnamed/part_001 on a database that holds movies, with the unique
\* index created (the empty database and the runs without the index are
\* those of SpecMovies, SpecWatch, SpecSeq and SpecFaults); src/index.js has
\* no watchlist
Init ==
  \/ /\ InitOn("part_001", {"legacy", "current"})
     /\ driverValue \in BOOLEAN
     /\ indexed = TRUE
  \/ InitOn("index", {"empty"}) /\ driverValue = FALSE /\ indexed = FALSE

\* the values of id and of _id in the records the conversion is tried on
ShapeValues ==
  {Undef, Num(0), Num(-1), Num(2), Half(2), NotANumber, Str(<<"2">>),
   Str(<<"x">>), Str(OidPool[2]), Oid(OidPool[1])}

\* a database that holds one movie record of any shape of id and _id
InitShapes ==
  /\ app = "part_001"
  /\ driverValue = TRUE
  /\ indexed = TRUE
  /\ seed = "shapes"
  /\ \E key \in ShapeValues, id \in ShapeValues :
       movies = <<Movie(key, id, Str(<<"a">>), Str(<<"x">>), Num(1))>>
  /\ counters = <<>>
  /\ oidGen = 0
  /\ clock = 2
  /\ watchlists = <<>>
  /\ users = <<>>
  /\ pc = [p \in Procs |-> "idle"]
  /\ req = [p \in Procs |-> NoReq]
  /\ loc = [p \in Procs |-> NoLocals]
  /\ last = NoResp
  /\ nreq = 0
  /\ client = Client(NoReq, NoReq, NoResp, <<>>)
  /\ issued = {}
  /\ created = {}
  /\ lost = FALSE
  /\ recovered = Undef
  /\ thrown = <<>>

InitMovies ==
  /\ InitOn("part_001", {"empty", "current"})
  /\ driverValue \in BOOLEAN
  /\ indexed = TRUE

InitWatch ==
  /\ InitOn("part_001", {"catalog", "mixed"})
  /\ driverValue = TRUE
  /\ indexed \in BOOLEAN

InitSeq ==
  /\ InitOn("part_001", {"empty", "legacy"})
  /\ driverValue \in BOOLEAN
  /\ indexed \in BOOLEAN

AllIdle == \A p \in Procs : pc[p] = "idle"

-----------------------------------------------------------------------------
(* Steps.  A step is what a handler does up to and including one awaited     *)
(* storage call; a response is sent in the step of the last storage call.    *)

\* res.status(status).send(...): the request is over
Reply(p, status, msg, n, doc, flag, list) ==
  /\ last' = Resp(req[p].kind, status, msg, n, doc, flag, list)
  /\ pc' = [pc EXCEPT ![p] = "idle"]
  /\ req' = [req EXCEPT ![p] = NoReq]
  /\ loc' = [loc EXCEPT ![p] = NoLocals]

\* a response without a list
Send(p, status, msg, n, doc, flag) == Reply(p, status, msg, n, doc, flag, <<>>)

\* res.send(list)
SendList(p, list) == Reply(p, 200, "", 0, NoDoc, FALSE, list)

\* the catch block of a handler, for an error with this code: POST
\* /watchlist/:movieId answers a duplicate key as it answers a stored entry
Caught(p, code) ==
  /\ thrown' = Append(thrown, code)
  /\ IF req[p].kind = "wladd" /\ code = 11000
     THEN Send(p, 200, "Movie is already in your watchlist", 0, NoDoc, TRUE)
     ELSE Send(p, 500, IF code = 11000 THEN "E11000 duplicate key"
                       ELSE "storage error", 0, NoDoc, FALSE)

\* the handler goes on to its next await
Goto(p, label, locals) ==
  /\ pc' = [pc EXCEPT ![p] = label]
  /\ loc' = [loc EXCEPT ![p] = locals]
  /\ UNCHANGED <<last, req>>

\* the request as the route that Express picks for its URL sees it
Arrive(routes, r) ==
  LET route == Routed(routes, PathOf(r))
  IN Req(route.handler, r.hdr,
         IF route.pat = "param" THEN PathOf(r).seg ELSE <<>>, r.body)

\* a request arrives at the server
Receive(p, r, max) ==
  /\ pc[p] = "idle"
  /\ nreq < max
  /\ nreq' = nreq + 1
  /\ pc' = [pc EXCEPT ![p] = "recv"]
  /\ req' = [req EXCEPT ![p] = Arrive(IF app = "index" THEN RoutesV1 ELSE Routes, r)]
  /\ UNCHANGED <<config, store, loc, last, issued, created, lost, recovered, thrown>>

\* clients of all routes of src/unnamed/part_001
Start(p) ==
  /\ app = "part_001"
  /\ \E r \in Requests : Receive(p, r, MaxAllReqs)
  /\ UNCHANGED client

\* clients that add, update and delete movies
StartMovies(p) ==
  /\ \E r \in RequestsMovies : Receive(p, r, MaxReqs)
  /\ UNCHANGED client

\* clients that list the movies
StartShapes(p) ==
  /\ Receive(p, Req("list", Undef, <<>>, NoBody), MaxReqs)
  /\ UNCHANGED client

\* clients of every modelled route of src/unnamed/part_001, the login route
\* POST /users/create-or-update among them
StartFaults(p) ==
  LET hdrs == {Undef, Str(<<"a">>), Str(<<"b">>)}
      params == {<<"1">>, OidPool[1]}
      requests ==
        Adds(hdrs) \cup Gets(params) \cup Updates(hdrs, params, {PlainUpdate})
          \cup Plain({"mine", "wllist", "list"}, hdrs)
          \cup Others({"delete", "wladd", "wlremove", "wlstatus"}, hdrs, params)
          \cup {Req("user", Undef, <<>>, [email |-> e]) : e \in hdrs}
  IN /\ \E r \in requests : Receive(p, r, MaxAllReqs)
     /\ UNCHANGED client

\* clients of the watchlist
StartWatch(p) ==
  /\ \E r \in RequestsWatch : Receive(p, r, MaxReqs)
  /\ UNCHANGED client

\* a client that waits for the response before it sends the next request
StartSeq(p) ==
  /\ AllIdle
  /\ p = CHOOSE q \in Procs : TRUE
  /\ \E r \in RequestsSeq :
       /\ Receive(p, r, MaxReqs)
       /\ client' = Client(Arrive(Routes, r), client.cur, last, watchlists)

\* what a handler does with the movie findMovieByIdentifier returned; the
\* update handler takes the time for updatedAt before its write
AfterFind(p, existing) ==
  LET r == req[p]
      converted == convertMovieToIntegerId(existing)
  IN CASE r.kind = "get" ->
            IF existing = NoDoc
            THEN Send(p, 404, "Movie not found", 0, NoDoc, FALSE)
            ELSE IF ~Truthy(converted._id)
            THEN Send(p, 500, "Error processing movie data", 0, NoDoc, FALSE)
            ELSE Send(p, 200, "", 0, converted, FALSE)
       [] r.kind \in {"update", "delete"} ->
            IF existing = NoDoc
            THEN Send(p, 404, "Movie not found", 0, NoDoc, FALSE)
            ELSE IF ~IsOwner(existing, r.hdr)
            THEN Send(p, 403, "Forbidden: not the owner", 0, NoDoc, FALSE)
            ELSE IF r.kind = "update"
            THEN Goto(p, "upd_write", Locals(0, existing, Undef, clock, <<>>))
            ELSE Goto(p, "del_write", Locals(0, existing, Undef, 0, <<>>))
       [] OTHER ->
            IF existing = NoDoc
            THEN Send(p, 404, "Movie not found", 0, NoDoc, FALSE)
            ELSE IF ~Truthy(converted._id)
            THEN Send(p, 500, "Failed to process movie data", 0, NoDoc, FALSE)
            ELSE Goto(p, "wl_check", Locals(0, converted, Undef, 0, <<>>))

\* findMovieByIdentifier up to its first query
BeginFind(p) ==
  IF NextStage(req[p].param, 0) = 0
  THEN Send(p, 404, "Movie not found", 0, NoDoc, FALSE)
  ELSE Goto(p, "find", Locals(NextStage(req[p].param, 0), NoDoc, Undef, 0, <<>>))

\* orConditions.length = 0
NoCandidates(idParam) ==
  /\ buildWatchlistIdentifierCandidates(idParam).numericCandidates = {}
  /\ buildWatchlistIdentifierCandidates(idParam).keyCandidates = {}

\* whether the handler takes the time: POST /movies/add does so once it has
\* an owner, before it allocates the id
Stamps(r) == r.kind = "add" /\ MovieEmail(r.hdr) # <<>>

\* whether the route of the request is registered with requireAuth
Protected(routes, r) == Routed(routes, PathOf(r)).auth

\* the handler of src/unnamed/part_001 up to its first await
Handle(p) ==
  LET r == req[p]
  IN CASE r.kind = "add" ->
            IF MovieEmail(r.hdr) = <<>>
            THEN Send(p, 401, "Unauthorized: missing user email", 0, NoDoc, FALSE)
            ELSE Goto(p, "alloc_inc", Locals(0, NoDoc, Undef, clock, <<>>))
       [] r.kind = "mine" ->
            IF ~Truthy(r.hdr)
            THEN Send(p, 401, "Unauthorized: missing user email", 0, NoDoc, FALSE)
            ELSE Goto(p, "mine_find", NoLocals)
       [] r.kind = "user" ->
            IF ~Truthy(r.body.email)
            THEN Send(p, 400, "Email is required", 0, NoDoc, FALSE)
            ELSE Goto(p, "user_find", NoLocals)
       [] r.kind = "list" -> Goto(p, "list_find", NoLocals)
       [] r.kind \in {"get", "update", "delete"} -> BeginFind(p)
       [] r.kind = "wllist" ->
            IF WatchEmail(r.hdr) = <<>>
            THEN Send(p, 401, "Unauthorized: missing user email", 0, NoDoc, FALSE)
            ELSE Goto(p, "wl_list", NoLocals)
       [] r.kind = "wladd" ->
            IF WatchEmail(r.hdr) = <<>>
            THEN Send(p, 401, "Unauthorized: missing user email", 0, NoDoc, FALSE)
            ELSE BeginFind(p)
       [] r.kind = "wlremove" ->
            IF WatchEmail(r.hdr) = <<>>
            THEN Send(p, 401, "Unauthorized: missing user email", 0, NoDoc, FALSE)
            ELSE IF NoCandidates(r.param)
            THEN Send(p, 400, "Invalid movie identifier", 0, NoDoc, FALSE)
            ELSE Goto(p, "wl_delete", NoLocals)
       [] r.kind = "wlstatus" ->
            IF WatchEmail(r.hdr) = <<>>
            THEN Send(p, 401, "Unauthorized: missing user email", 0, NoDoc, FALSE)
            ELSE IF NoCandidates(r.param)
            THEN Send(p, 200, "", 0, NoDoc, FALSE)
            ELSE Goto(p, "wl_status", NoLocals)
       [] OTHER -> Send(p, 404, "Cannot route", 0, NoDoc, FALSE)

\* the route of the request runs: requireAuth if it is protected, then the handler
Dispatch(p) ==
  /\ app = "part_001"
  /\ pc[p] = "recv"
  /\ IF Protected(Routes, req[p]) /\ ~requireAuth(req[p].hdr)
     THEN /\ Send(p, 401, "Unauthorized: missing x-user-email", 0, NoDoc, FALSE)
          /\ UNCHANGED clock
     ELSE /\ Handle(p)
          /\ clock' = IF Stamps(req[p]) THEN clock + 1 ELSE clock
  /\ UNCHANGED <<config, colls, nreq, hist>>

\* getNextMovieId: findOneAndUpdate({ $inc: { sequence_value: 1 } }, upsert)
AllocInc(p) ==
  /\ pc[p] = "alloc_inc"
  /\ Incremented(counters)[1].n <= MaxId
  /\ counters' = Incremented(counters)
  /\ IF driverValue
     THEN /\ Goto(p, "add_insert", [loc[p] EXCEPT !.n = counters'[1]])
          /\ issued' = issued \cup {counters'[1]}
     ELSE /\ Goto(p, "alloc_read", loc[p])
          /\ UNCHANGED issued
  /\ UNCHANGED <<config, users, clock, movies, watchlists, oidGen, nreq, client, created, lost, recovered, thrown>>

\* getNextMovieId: the counter is read again with findOne
AllocRead(p) ==
  /\ pc[p] = "alloc_read"
  /\ IF counters # <<>>
     THEN /\ Goto(p, "add_insert", [loc[p] EXCEPT !.n = counters[1]])
          /\ issued' = issued \cup {counters[1]}
     ELSE /\ Goto(p, "alloc_scan", loc[p])
          /\ UNCHANGED issued
  /\ UNCHANGED <<config, clock, colls, nreq, client, created, lost, recovered, thrown>>

\* getNextMovieId: the movie with the highest numeric id is looked up
AllocScan(p) ==
  /\ pc[p] = "alloc_scan"
  /\ Goto(p, "alloc_set", [loc[p] EXCEPT !.n = FallbackId(movies)])
  /\ UNCHANGED <<config, clock, colls, nreq, hist>>

\* getNextMovieId: the counter is set to the fallback id, which is returned
AllocSet(p) ==
  /\ pc[p] = "alloc_set"
  /\ loc[p].n.n <= MaxId
  /\ counters' = <<loc[p].n>>
  /\ Goto(p, "add_insert", loc[p])
  /\ issued' = issued \cup {loc[p].n}
  /\ recovered' = loc[p].n
  /\ UNCHANGED <<config, users, clock, movies, watchlists, oidGen, nreq, client, created, lost, thrown>>

\* POST /movies/add: insertOne and the response { insertedId, id }
AddInsert(p) ==
  /\ pc[p] = "add_insert"
  /\ LET doc == NewMovie(loc[p].n, req[p].hdr, req[p].body, loc[p].now)
         ins == InsertMovie(movies, doc)
     IN /\ movies' = ins.coll
        /\ IF ins.ok
           THEN /\ Send(p, 201, "", 0,
                        [NoBody EXCEPT !._id = loc[p].n, !.id = loc[p].n], FALSE)
                /\ created' = created \cup
                     {[id |-> loc[p].n, by |-> req[p].hdr.s, live |-> TRUE]}
                /\ UNCHANGED thrown
           ELSE /\ Caught(p, 11000)
                /\ UNCHANGED created
  /\ UNCHANGED <<config, users, clock, watchlists, counters, oidGen, nreq, client,
                 issued, lost, recovered>>

\* findMovieByIdentifier: one findOne, then the next one or the handler
FindStep(p) ==
  /\ pc[p] = "find"
  /\ LET found == StageQuery(movies, req[p].param, loc[p].stage)
         next == NextStage(req[p].param, loc[p].stage)
     IN IF found = NoDoc /\ next # 0
        THEN Goto(p, "find", Locals(next, NoDoc, Undef, 0, <<>>))
        ELSE AfterFind(p, found)
  /\ clock' = IF pc'[p] = "upd_write" THEN clock + 1 ELSE clock
  /\ UNCHANGED <<config, colls, nreq, hist>>

\* PUT /movies/update/:id: updateOne and the response
UpdWrite(p) ==
  /\ pc[p] = "upd_write"
  /\ LET query == WriteQuery(loc[p].doc)
         payload == StripPayload(req[p].body)
     IN /\ movies' = UpdateOne(movies, query,
                               [payload EXCEPT !.updatedAt = Num(loc[p].now)])
        /\ Send(p, 200, "", IF Indexes(movies, query) = {} THEN 0 ELSE 1,
                NoDoc, FALSE)
  /\ UNCHANGED <<config, users, clock, watchlists, counters, oidGen, nreq, hist>>

\* DELETE /movies/:id: deleteOne and the response
DelWrite(p) ==
  /\ pc[p] = "del_write"
  /\ LET query == WriteQuery(loc[p].doc)
         gone == FindOne(movies, query, NoDoc)
     IN /\ movies' = DeleteOne(movies, query)
        /\ created' = {IF c.live /\ c.id = gone.id
                       THEN [c EXCEPT !.live = FALSE] ELSE c : c \in created}
        /\ Send(p, 200, "", IF Indexes(movies, query) = {} THEN 0 ELSE 1,
                NoDoc, FALSE)
  /\ UNCHANGED <<config, users, clock, watchlists, counters, oidGen, nreq, client, issued, lost, recovered, thrown>>

\* POST /watchlist/:movieId: the existence check; when it finds no entry the
\* handler builds the entry, taking the time for its createdAt
WlCheck(p) ==
  /\ pc[p] = "wl_check"
  /\ LET query == {[userEmail |-> {WatchEmail(req[p].hdr)},
                    movieKey |-> {StringOf(loc[p].doc.id)}]}
     IN IF FindOne(watchlists, query, NoEntry) # NoEntry
        THEN /\ Send(p, 200, "Movie is already in your watchlist", 0, loc[p].doc,
                     TRUE)
             /\ UNCHANGED clock
        ELSE /\ Goto(p, "wl_insert", [loc[p] EXCEPT !.now = clock])
             /\ clock' = clock + 1
  /\ UNCHANGED <<config, colls, nreq, hist>>

\* POST /watchlist/:movieId: insertOne of the entry, the response, and the
\* catch of E11000
WlInsert(p) ==
  /\ pc[p] = "wl_insert"
  /\ LET ins == InsertWatch(watchlists,
                            NewEntry(req[p].hdr, loc[p].doc, loc[p].now), indexed)
     IN /\ watchlists' = ins.coll
        /\ IF ins.ok
           THEN /\ Send(p, 201, "Movie added to watchlist", 0, loc[p].doc, FALSE)
                /\ UNCHANGED thrown
           ELSE Caught(p, 11000)
  /\ UNCHANGED <<config, users, movies, counters, oidGen, clock, nreq, client,
                 issued, created, lost, recovered>>

\* GET /movies without a query string: find, the conversion of every movie,
\* and the response
ListFind(p) ==
  /\ pc[p] = "list_find"
  /\ SendList(p, [i \in 1..Len(movies) |->
                    Item(convertMovieToIntegerId(movies[i]), FALSE, Undef)])
  /\ UNCHANGED <<config, store, nreq, hist>>

\* GET /movies/my-collection: find, sort, and the response
MineFind(p) ==
  /\ pc[p] = "mine_find"
  /\ SendList(p, MyCollection(movies, req[p].hdr))
  /\ UNCHANGED <<config, store, nreq, hist>>

\* GET /watchlist: the entries of the user are read; the movies are read next
\* unless no entry has a movieId above 0 or a movieKey (orConditions is empty)
WlList(p) ==
  /\ pc[p] = "wl_list"
  /\ LET entries == UserEntries(watchlists, req[p].hdr)
         keyed == {i \in 1..Len(entries) :
                     \/ entries[i].movieKey # <<>>
                     \/ /\ entries[i].movieId.t \in {"num", "half"}
                        /\ Twice(entries[i].movieId) > 0}
     IN IF entries = <<>> THEN SendList(p, <<>>)
        ELSE IF keyed = {} THEN SendList(p, WatchlistItems(<<>>, entries))
        ELSE Goto(p, "wl_movies", Locals(0, NoDoc, Undef, 0, entries))
  /\ UNCHANGED <<config, store, nreq, hist>>

\* GET /watchlist: the movies of the entries are read, and the response
WlMovies(p) ==
  /\ pc[p] = "wl_movies"
  /\ SendList(p, WatchlistItems(EntryMovies(movies, loc[p].entries), loc[p].entries))
  /\ UNCHANGED <<config, store, nreq, hist>>

\* GET /watchlist/status/:movieId: findOne and the response
WlStatus(p) ==
  /\ pc[p] = "wl_status"
  /\ LET query == WatchQuery(req[p].hdr, req[p].param)
     IN Send(p, 200, "", 0, NoDoc, FindOne(watchlists, query, NoEntry) # NoEntry)
  /\ UNCHANGED <<config, store, nreq, hist>>

\* DELETE /watchlist/:movieId: deleteOne and the response
WlDelete(p) ==
  /\ pc[p] = "wl_delete"
  /\ LET query == WatchQuery(req[p].hdr, req[p].param)
     IN /\ watchlists' = DeleteOne(watchlists, query)
        /\ IF Indexes(watchlists, query) = {}
           THEN Send(p, 404, "Movie not found in watchlist", 0, NoDoc, FALSE)
           ELSE Send(p, 200, "Movie removed from watchlist", 0, NoDoc, FALSE)
  /\ UNCHANGED <<config, users, clock, movies, counters, oidGen, nreq, hist>>

\* POST /users/create-or-update: the user is looked up by email; the handler
\* then takes the time twice, for the two dates it writes
UserFind(p) ==
  /\ pc[p] = "user_find"
  /\ IF Indexes(users, {[email |-> {req[p].body.email}]}) = {}
     THEN Goto(p, "user_insert", NoLocals)
     ELSE Goto(p, "user_update", NoLocals)
  /\ clock' = clock + 2
  /\ UNCHANGED <<config, colls, nreq, hist>>

\* POST /users/create-or-update: updateOne of the user found, and the response
UserUpdate(p) ==
  /\ pc[p] = "user_update"
  /\ Send(p, 200, "User updated", 0, NoDoc, FALSE)
  /\ UNCHANGED <<config, store, nreq, hist>>

\* POST /users/create-or-update: insertOne of a new user, and the response
UserInsert(p) ==
  /\ pc[p] = "user_insert"
  /\ users' = Append(users, [email |-> req[p].body.email])
  /\ Send(p, 201, "User created", 0, NoDoc, FALSE)
  /\ UNCHANGED <<config, movies, watchlists, counters, oidGen, clock, nreq, hist>>

\* the storage call a request waits for throws: the catch block of the
\* handler answers, but an error of the ObjectId query of
\* findMovieByIdentifier is logged there and the lookup goes on
Throws(p) ==
  /\ pc[p] \notin {"idle", "recv"}
  /\ IF pc[p] = "find" /\ loc[p].stage = 3
     THEN /\ Goto(p, "find", Locals(NextStage(req[p].param, 3), NoDoc, Undef, 0,
                                    <<>>))
          /\ thrown' = Append(thrown, 0)
     ELSE Caught(p, 0)
  /\ UNCHANGED <<config, store, nreq, client, issued, created, lost, recovered>>

\* the counter document is removed from outside (the case getNextMovieId's
\* manual initialisation is written for)
LoseCounter ==
  /\ counters # <<>>
  /\ counters' = <<>>
  /\ lost' = TRUE
  /\ recovered' = Undef
  /\ UNCHANGED <<config, users, movies, watchlists, oidGen, clock, pc, req, loc, last,
                 nreq, client, issued, created, thrown>>

-----------------------------------------------------------------------------
(* The steps of src/index.js. *)

\* clients of src/index.js
StartV1(p) ==
  /\ app = "index"
  /\ \E r \in RequestsV1 : Receive(p, r, MaxAllReqs)
  /\ UNCHANGED client

\* the handler of src/index.js up to its first await; new ObjectId(id) throws
\* on a parameter that is no ObjectId, which the handler's catch answers
HandleV1(p) ==
  IF req[p].kind = "add"
  THEN Goto(p, "v1_insert", Locals(0, NoDoc, Undef, clock, <<>>))
  ELSE IF req[p].kind = "mine" THEN Goto(p, "v1_find", NoLocals)
  ELSE IF ~ObjectIdIsValid(req[p].param)
  THEN Send(p, 500, "BSONError", 0, NoDoc, FALSE)
  ELSE Goto(p, "v1_find", NoLocals)

\* the route of the request runs: requireAuth if it is protected, then the handler
DispatchV1(p) ==
  /\ app = "index"
  /\ pc[p] = "recv"
  /\ IF Protected(RoutesV1, req[p]) /\ ~requireAuth(req[p].hdr)
     THEN /\ Send(p, 401, "Unauthorized: missing x-user-email", 0, NoDoc, FALSE)
          /\ UNCHANGED clock
     ELSE /\ HandleV1(p)
          /\ clock' = IF req[p].kind = "add" THEN clock + 1 ELSE clock
  /\ UNCHANGED <<config, colls, nreq, hist>>

\* the first storage call of a handler of src/index.js and what it does with
\* the result; the update handler takes the time for updatedAt
V1Find(p) ==
  /\ pc[p] = "v1_find"
  /\ LET r == req[p]
         existing == FindOne(movies, {[_id |-> {NewObjectId(r.param)}]}, NoDoc)
     IN IF r.kind = "mine" THEN SendList(p, MyCollectionV1(movies, r.hdr))
        ELSE IF existing = NoDoc
        THEN Send(p, 404, "Movie not found", 0, NoDoc, FALSE)
        ELSE IF r.kind = "get"
        THEN Send(p, 200, "", 0, existing, FALSE)
        ELSE IF ~IsOwnerV1(existing, r.hdr)
        THEN Send(p, 403, "Forbidden: not the owner", 0, NoDoc, FALSE)
        ELSE IF r.kind = "update"
        THEN Goto(p, "v1_update", Locals(0, existing, Undef, clock, <<>>))
        ELSE Goto(p, "v1_delete", Locals(0, existing, Undef, 0, <<>>))
  /\ clock' = IF pc'[p] = "v1_update" THEN clock + 1 ELSE clock
  /\ UNCHANGED <<config, colls, nreq, hist>>

\* PUT /movies/update/:id of src/index.js: updateOne and the response
V1Update(p) ==
  /\ pc[p] = "v1_update"
  /\ LET query == {[_id |-> {NewObjectId(req[p].param)}]}
         payload == StripPayloadV1(req[p].body)
     IN /\ movies' = UpdateOne(movies, query,
                               [payload EXCEPT !.updatedAt = Num(loc[p].now)])
        /\ Send(p, 200, "", IF Indexes(movies, query) = {} THEN 0 ELSE 1,
                NoDoc, FALSE)
  /\ UNCHANGED <<config, users, clock, watchlists, counters, oidGen, nreq, hist>>

\* DELETE /movies/:id of src/index.js: deleteOne and the response
V1Delete(p) ==
  /\ pc[p] = "v1_delete"
  /\ LET query == {[_id |-> {NewObjectId(req[p].param)}]}
     IN /\ movies' = DeleteOne(movies, query)
        /\ Send(p, 200, "", IF Indexes(movies, query) = {} THEN 0 ELSE 1,
                NoDoc, FALSE)
  /\ UNCHANGED <<config, users, clock, watchlists, counters, oidGen, nreq, hist>>

\* POST /movies/add of src/index.js: insertOne under a generated ObjectId,
\* and the response { insertedId }
V1Insert(p) ==
  /\ pc[p] = "v1_insert"
  /\ oidGen < Len(OidPool)
  /\ oidGen' = oidGen + 1
  /\ movies' = Append(movies, NewMovieV1(OidPool[oidGen + 1], req[p].hdr, req[p].body,
                                        loc[p].now))
  /\ Send(p, 201, "", 0, [NoBody EXCEPT !._id = Oid(OidPool[oidGen + 1])], FALSE)
  /\ UNCHANGED <<config, users, clock, watchlists, counters, nreq, hist>>

-----------------------------------------------------------------------------
(* Specifications. *)

Next ==
  \/ \E p \in Procs :
       \/ Start(p) \/ Dispatch(p)
       \/ AllocInc(p) \/ AllocRead(p) \/ AddInsert(p)
       \/ FindStep(p) \/ UpdWrite(p) \/ DelWrite(p)
       \/ WlCheck(p) \/ WlInsert(p) \/ WlDelete(p)
       \/ MineFind(p) \/ WlList(p) \/ WlMovies(p) \/ WlStatus(p)
  \/ \E p \in Procs :
       \/ StartV1(p) \/ DispatchV1(p)
       \/ V1Find(p) \/ V1Update(p) \/ V1Delete(p) \/ V1Insert(p)

\* every route of both servers, concurrent requests
Spec == Init /\ [][Next]_vars

NextMovies ==
  \/ \E p \in Procs :
       \/ StartMovies(p) \/ Dispatch(p)
       \/ AllocInc(p) \/ AllocRead(p) \/ AllocScan(p) \/ AllocSet(p)
       \/ AddInsert(p) \/ FindStep(p) \/ UpdWrite(p) \/ DelWrite(p)
  \/ LoseCounter

\* src/unnamed/part_001: concurrent add, update and delete of movies, and the
\* counter document may be removed
SpecMovies == InitMovies /\ [][NextMovies]_vars

NextWatch ==
  \E p \in Procs :
    \/ StartWatch(p) \/ Dispatch(p) \/ FindStep(p)
    \/ WlCheck(p) \/ WlInsert(p) \/ WlDelete(p) \/ WlStatus(p)

\* src/unnamed/part_001: concurrent watchlist requests over a stored catalogue
SpecWatch == InitWatch /\ [][NextWatch]_vars

NextSeq ==
  \E p \in Procs :
    \/ StartSeq(p) \/ Dispatch(p)
    \/ AllocInc(p) \/ AllocRead(p) \/ AddInsert(p)
    \/ FindStep(p) \/ DelWrite(p) \/ WlCheck(p) \/ WlInsert(p)

\* src/unnamed/part_001: one request at a time, the counter document stays
SpecSeq == InitSeq /\ [][NextSeq]_vars

NextRecover ==
  \/ \E p \in Procs :
       \/ StartSeq(p) \/ Dispatch(p)
       \/ AllocInc(p) \/ AllocRead(p) \/ AllocScan(p) \/ AllocSet(p)
       \/ AddInsert(p) \/ FindStep(p) \/ DelWrite(p)
       \/ WlCheck(p) \/ WlInsert(p)
  \/ LoseCounter

\* src/unnamed/part_001: one request at a time, and the counter document may
\* be removed at any moment
SpecRecover == InitSeq /\ [][NextRecover]_vars

NextShapes == \E p \in Procs : StartShapes(p) \/ Dispatch(p) \/ ListFind(p)

\* src/unnamed/part_001: GET /movies over a stored record of any identity shape
SpecShapes == InitShapes /\ [][NextShapes]_vars

NextFaults ==
  \/ \E p \in Procs :
       \/ StartFaults(p) \/ Dispatch(p)
       \/ AllocInc(p) \/ AllocRead(p) \/ AllocScan(p) \/ AllocSet(p)
       \/ AddInsert(p) \/ FindStep(p) \/ UpdWrite(p) \/ DelWrite(p)
       \/ WlCheck(p) \/ WlInsert(p) \/ WlDelete(p)
       \/ MineFind(p) \/ ListFind(p) \/ WlList(p) \/ WlMovies(p) \/ WlStatus(p)
       \/ UserFind(p) \/ UserUpdate(p) \/ UserInsert(p)
       \/ Throws(p)
  \/ LoseCounter

\* src/unnamed/part_001: every modelled route, concurrent requests, and every
\* storage call may throw
SpecFaults ==
  /\ InitOn("part_001", {"current", "legacy"})
  /\ driverValue = FALSE
  /\ indexed \in BOOLEAN
  /\ [][NextFaults]_vars
-----------------------------------------------------------------------------
(* Properties. *)

\* C1: when an update or delete request resolves to a stored movie whose
\* lowercased addedBy differs from the requester's lowercased x-user-email,
\* the request is answered 403 in that step, and no step the request takes up
\* to its answer changes the movie collection.
C1_NonOwnerIsForbidden ==
  [][\A p \in Procs :
       LET r == req[p]
           m == IF pc[p] = "find" THEN StageQuery(movies, r.param, loc[p].stage)
                ELSE IF pc[p] = "v1_find"
                THEN FindOne(movies, {[_id |-> {NewObjectId(r.param)}]}, NoDoc)
                ELSE NoDoc
       IN /\ ( /\ r.kind \in {"update", "delete"}
               /\ pc'[p] # pc[p]
               /\ m # NoDoc
               /\ ToLowerCase(r.hdr.s) # ToLowerCase(m.addedBy.s) )
            => /\ last' = Resp(r.kind, 403, "Forbidden: not the owner", 0, NoDoc,
                               FALSE, <<>>)
               /\ pc'[p] = "idle"
               /\ movies' = movies
          /\ ( /\ r.kind \in {"update", "delete"}
               /\ pc[p] \in {"recv", "find", "v1_find"}
               /\ (pc'[p] # pc[p] \/ loc'[p] # loc[p]) )
            => movies' = movies]_vars

\* a non-owner's update or delete has been answered 403 while movies are stored
C1_Witness ==
  /\ last.kind \in {"update", "delete"}
  /\ last.status = 403
  /\ movies # <<>>

\* C2: the watchlist collection never holds two entries with the same
\* userEmail and the same movieKey, whatever the interleaving of the requests
\* and whether or not bootstrap's createIndex succeeded.
C2_OneEntryPerPair ==
  \A i, j \in 1..Len(watchlists) :
    ( /\ watchlists[i].userEmail = watchlists[j].userEmail
      /\ watchlists[i].movieKey = watchlists[j].movieKey ) => i = j

\* C3: when a client's POST /watchlist/:movieId was answered 201 and its next
\* request is a POST /watchlist/:movieId of the same user that resolves to the
\* same movie, that request is answered 200 with alreadyExists, leaves the
\* watchlist collection as it found it, and one entry is stored for the pair.
C3_SecondAddAlreadyExists ==
  LET cur == client.cur
      prev == client.prevReq
      m == findMovieByIdentifier(movies, cur.param)
      pair == {i \in 1..Len(watchlists) :
                 /\ watchlists[i].userEmail = WatchEmail(cur.hdr)
                 /\ watchlists[i].movieKey = StringOf(ConvertedValue(m))}
  IN ( /\ AllIdle
       /\ cur.kind = "wladd"
       /\ prev.kind = "wladd"
       /\ client.prevResp.kind = "wladd"
       /\ client.prevResp.status = 201
       /\ WatchEmail(prev.hdr) = WatchEmail(cur.hdr)
       /\ m # NoDoc
       /\ findMovieByIdentifier(movies, prev.param) = m )
     => /\ last.kind = "wladd"
        /\ last.status = 200
        /\ last.flag
        /\ watchlists = client.snap
        /\ Cardinality(pair) = 1

\* the second of two such requests has been answered
C3_Witness ==
  /\ AllIdle
  /\ client.cur.kind = "wladd"
  /\ client.prevReq.kind = "wladd"
  /\ client.prevResp.kind = "wladd"
  /\ client.prevResp.status = 201
  /\ WatchEmail(client.prevReq.hdr) = WatchEmail(client.cur.hdr)
  /\ findMovieByIdentifier(movies, client.cur.param) # NoDoc
  /\ findMovieByIdentifier(movies, client.prevReq.param)
       = findMovieByIdentifier(movies, client.cur.param)
  /\ last.status = 200

\* C4: when the server started on an empty movie collection, no two stored
\* movies have the same id, every id is an integer, and every stored movie has
\* _id equal to id.
C4_UniqueIntegerIds ==
  seed = "empty" =>
    /\ \A i, j \in 1..Len(movies) : movies[i].id = movies[j].id => i = j
    /\ \A i \in 1..Len(movies) :
         movies[i].id.t = "num" /\ movies[i]._id = movies[i].id

\* from the empty collection two movies were added and an update, whose
\* payload may name _id and id, has written one of them
C4_Witness ==
  /\ seed = "empty"
  /\ Len(movies) >= 2
  /\ last.kind = "update"
  /\ last.status = 200
  /\ last.n = 1

\* C5: with one request at a time and the counter document never removed,
\* every value getNextMovieId returns is greater than all it returned before,
\* the stored sequence_value equals the value just returned, and the counter
\* never decreases.
C5_SequentialIdsIncrease ==
  [][/\ \A p \in Procs :
          (pc[p] \in {"alloc_inc", "alloc_read", "alloc_set"} /\ pc'[p] = "add_insert")
            => /\ \A k \in issued : Twice(loc'[p].n) > Twice(k)
               /\ loc'[p].n.t = "num"
               /\ counters' = <<loc'[p].n>>
     /\ counters # <<>>
          => (counters' # <<>> /\ Twice(counters'[1]) >= Twice(counters[1]))]_vars

\* getNextMovieId has returned twice
C5_Witness == AllIdle /\ Cardinality(issued) >= 2 /\ counters = <<Num(2)>>

\* C6: while the counter document has never been removed, no call of
\* getNextMovieId returns a value that a call has returned before, also when
\* findOneAndUpdate's result carries no document and the counter is read again.
C6_ConcurrentIdsDistinct ==
  [][\A p \in Procs :
       ( /\ ~lost
         /\ pc[p] \in {"alloc_inc", "alloc_read", "alloc_set"}
         /\ pc'[p] = "add_insert" )
         => loc'[p].n \notin issued]_vars

\* C7: a request whose URL is that of a route registered with requireAuth and
\* whose x-user-email header is absent or empty is answered 401 "Unauthorized:
\* missing x-user-email" by the step that dispatches it: no handler runs for
\* it and no collection changes.
C7_MissingHeaderIsUnauthorized ==
  [][\A p \in Procs :
       LET routes == IF app = "index" THEN RoutesV1 ELSE Routes
           url == PathOf(req[p])
       IN ( /\ pc[p] = "recv"
            /\ pc'[p] # "recv"
            /\ \E i \in 1..Len(routes) :
                 routes[i].auth /\ RouteMatches(routes[i], url)
            /\ req[p].hdr \in {Undef, Str(<<>>)} )
          => /\ last'.status = 401
             /\ last'.msg = "Unauthorized: missing x-user-email"
             /\ pc'[p] = "idle"
             /\ UNCHANGED colls]_vars

\* C8: on a database that started empty the first POST /movies/add that
\* succeeds is answered id 1; and when a client's GET /movies/k names the id k
\* of a movie that a POST /movies/add of requester e created and that was not
\* deleted, the answer is 200 with that movie: _id = id = k and addedBy the
\* lowercased e.
C8_AddThenGet ==
  /\ ( /\ seed = "empty"
       /\ last.kind = "add"
       /\ last.status = 201
       /\ Cardinality(created) = 1 ) => last.doc.id = Num(1)
  /\ \A c \in created :
       ( /\ AllIdle
         /\ client.cur.kind = "get"
         /\ c.live
         /\ client.cur.param = StringOf(c.id) )
         => /\ last.kind = "get"
            /\ last.status = 200
            /\ last.doc._id = c.id
            /\ last.doc.id = c.id
            /\ last.doc.addedBy = Str(ToLowerCase(c.by))
            /\ last.doc.title = AddBody.title

\* a movie added under the header "A" has been fetched by its id
C8_Witness ==
  /\ AllIdle
  /\ client.cur.kind = "get"
  /\ last.kind = "get"
  /\ last.status = 200
  /\ \E c \in created :
       c.live /\ client.cur.param = StringOf(c.id) /\ c.by = <<"A">>

\* C9: the write step of an update or delete request changes or removes only
\* movies whose owner, at the moment of the write, is the requester.
C9_WritesOnlyOwnMovies ==
  [][\A p \in Procs :
       (pc[p] \in {"upd_write", "del_write"} /\ pc'[p] = "idle")
         => \A i \in 1..Len(movies) :
              (\A j \in 1..Len(movies') : movies'[j] # movies[i])
                => OwnerEmail(movies[i]) = MovieEmail(req[p].hdr)]_vars

\* C10 as stated: a DELETE /watchlist/:movieId of user u, whatever its
\* parameter, removes one entry of u that the parameter matches by movieId or
\* by movieKey and answers 200 when there is such an entry, answers 404 and
\* changes nothing when u has no matching entry, and every entry of another
\* user is still stored after it.
C10_RemoveOwnEntryOnly ==
  [][\A p \in Procs :
       LET u == WatchEmail(req[p].hdr)
           c == buildWatchlistIdentifierCandidates(req[p].param)
           own == {i \in 1..Len(watchlists) :
                     /\ watchlists[i].userEmail = u
                     /\ \/ watchlists[i].movieId
                             \in {Num(k) : k \in c.numericCandidates}
                        \/ watchlists[i].movieKey \in c.keyCandidates}
       IN ( /\ req[p].kind = "wlremove"
            /\ u # <<>>
            /\ pc[p] # "idle"
            /\ pc'[p] = "idle" )
            => /\ IF own = {}
                  THEN last'.status = 404 /\ watchlists' = watchlists
                  ELSE /\ last'.status = 200
                       /\ \E i \in own : watchlists' = RemoveAt(watchlists, i)
               /\ \A i \in 1..Len(watchlists) :
                    watchlists[i].userEmail # u
                      => \E j \in 1..Len(watchlists') :
                           watchlists'[j] = watchlists[i]]_vars

\* C10 as amended: a DELETE /watchlist/:movieId of user u answers 400 and
\* changes nothing when its parameter is blank and so gives no identifier
\* candidate; otherwise it removes one entry of u that the parameter matches
\* by movieId or by movieKey and answers 200 when there is such an entry, and
\* answers 404 and changes nothing when there is none; in every case each
\* entry of another user is still stored after it, and no step of the request
\* before its last one writes to the watchlist.
C10_RemoveOwnEntryOrBadInput ==
  [][\A p \in Procs :
       LET u == WatchEmail(req[p].hdr)
           c == buildWatchlistIdentifierCandidates(req[p].param)
           blank == c.numericCandidates = {} /\ c.keyCandidates = {}
           own == {i \in 1..Len(watchlists) :
                     /\ watchlists[i].userEmail = u
                     /\ \/ watchlists[i].movieId
                             \in {Num(k) : k \in c.numericCandidates}
                        \/ watchlists[i].movieKey \in c.keyCandidates}
       IN /\ ( /\ req[p].kind = "wlremove"
               /\ u # <<>>
               /\ pc[p] # "idle"
               /\ pc'[p] = "idle" )
               => /\ IF blank
                     THEN /\ last'.status = 400
                          /\ last'.msg = "Invalid movie identifier"
                          /\ watchlists' = watchlists
                     ELSE IF own = {}
                     THEN last'.status = 404 /\ watchlists' = watchlists
                     ELSE /\ last'.status = 200
                          /\ \E i \in own : watchlists' = RemoveAt(watchlists, i)
                  /\ \A i \in 1..Len(watchlists) :
                       watchlists[i].userEmail # u
                         => \E j \in 1..Len(watchlists') :
                              watchlists'[j] = watchlists[i]
          /\ ( /\ req[p].kind = "wlremove"
               /\ pc'[p] # "idle"
               /\ pc'[p] # pc[p] )
               => watchlists' = watchlists]_vars

\* a user's entry has been removed while another entry stays stored
C10_Witness ==
  /\ last.kind = "wlremove"
  /\ last.status = 200
  /\ watchlists # <<>>


\* C16: when the insertOne of POST /watchlist/:movieId fails on the duplicate
\* key, the response is the one the existence check gives for a stored entry:
\* status 200 with the same message, the same movie and alreadyExists true.
C16_DuplicateAnswersLikeExisting ==
  [][\A p \in Procs :
       (pc[p] = "wl_insert" /\ pc'[p] = "idle" /\ watchlists' = watchlists)
         => last' = Resp("wladd", 200, "Movie is already in your watchlist", 0,
                         loc[p].doc, TRUE, <<>>)]_vars


\* C13: a GET /movies/my-collection that carries a non-empty x-user-email
\* header e is answered by the my-collection handler, 200 with exactly the
\* stored movies whose addedBy is e or the lowercased e, newest createdAt
\* first; the GET /movies/:id route of the same server never answers it.
C13_MyCollectionIsRouted ==
  [][\A p \in Procs :
       LET e == req[p].hdr
           own == {i \in 1..Len(movies) :
                     movies[i].addedBy \in {e, Str(ToLowerCase(e.s))}}
           list == last'.list
       IN ( /\ pc[p] # "idle"
            /\ pc'[p] = "idle"
            /\ req[p].kind = "mine" \/ req[p].param = MyCollectionSegment
            /\ Truthy(e) )
            => /\ last'.kind = "mine"
               /\ last'.status = 200
               /\ Len(list) = Cardinality(own)
               /\ \A i \in own : \E k \in 1..Len(list) :
                    list[k].doc \in {movies[i], convertMovieToIntegerId(movies[i])}
               /\ \A k \in 1..(Len(list) - 1) :
                    list[k].doc.createdAt.n >= list[k + 1].doc.createdAt.n]_vars


\* C18: findMovieByIdentifier gives null only when none of its queries
\* matches, and an identifier that is the ObjectId key of a stored movie
\* resolves to that movie, not to another movie whose integer id is the
\* number the identifier's leading decimal digits spell: GET /movies/:id
\* with that key answers 200 with the movie stored under it.
C18_ObjectIdKeyResolvesToItsMovie ==
  LET s == client.cur.param
      answered == AllIdle /\ client.cur.kind = "get" /\ last.kind = "get"
  IN /\ (answered /\ last.status = 404)
          => \A stage \in FindStages :
               StageApplies(s, stage) => StageQuery(movies, s, stage) = NoDoc
     /\ \A i \in 1..Len(movies) :
          ( /\ answered
            /\ ObjectIdIsValid(s)
            /\ movies[i]._id = NewObjectId(s) )
            => /\ last.status = 200
               /\ last.doc = convertMovieToIntegerId(movies[i])


\* C12: for every entry of the requester's watchlist, GET /watchlist returns
\* the live movie (with watchlistedAt) when the movie the entry was created
\* for is still stored, whatever the shape of its identity.  Stated for a
\* movie collection that was never written to, where the movie an entry was
\* created for is the one stored movie that converts to the entry's key: the
\* item of the entry is that movie, converted, and not flagged isMissing.
C12_StoredMovieIsReturnedLive ==
  [][\A p \in Procs :
       ( /\ pc[p] = "wl_movies"
         /\ pc'[p] = "idle"
         /\ created = {}
         /\ movies = SeedMovies(seed) )
         => LET entries == loc[p].entries
                list == last'.list
            IN /\ Len(list) = Len(entries)
               /\ \A k \in 1..Len(entries) :
                    LET origin == {i \in 1..Len(movies) :
                                     StringOf(ConvertedValue(movies[i]))
                                       = entries[k].movieKey}
                    IN Cardinality(origin) = 1
                         => \E i \in origin :
                              list[k] = Item(convertMovieToIntegerId(movies[i]),
                                             FALSE, entries[k].createdAt)]_vars


\* C20: the write of a PUT /movies/update/:id that was accepted from the
\* owner, whatever the payload (also one that sets addedBy, _id or id),
\* leaves id, _id and addedBy of every movie as they were, changes no movie
\* but the resolved one, and writes the remaining payload fields and
\* updatedAt to it.
C20_UpdateKeepsIdentity ==
  [][\A p \in Procs :
       (pc[p] \in {"upd_write", "v1_update"} /\ pc'[p] = "idle")
         => /\ Len(movies') = Len(movies)
            /\ \A i \in 1..Len(movies) :
                 /\ movies'[i]._id = movies[i]._id
                 /\ movies'[i].id = movies[i].id
                 /\ movies'[i].addedBy = movies[i].addedBy
                 /\ movies'[i].createdAt = movies[i].createdAt
                 /\ movies'[i] # movies[i] => movies[i]._id = loc[p].doc._id
                 /\ movies[i]._id = loc[p].doc._id
                      => /\ movies'[i].title = req[p].body.title
                         /\ movies'[i].updatedAt = Num(loc[p].now)]_vars


\* C11: a GET /watchlist/status/:movieId of user u is never answered with an
\* error status, whatever its parameter; for movie id k it is answered 200
\* with isWatchlisted true exactly when an entry of u for k is stored at the
\* moment it reads, and false for a parameter that names no movie id; after a
\* successful remove of k by u no entry of u for k is stored, and after a
\* successful add of k by u one is, so the status right after is false resp.
\* true.
C11_StatusTellsStoredEntry ==
  [][\A p \in Procs :
       LET u == WatchEmail(req[p].hdr)
           k == ParseInt(req[p].param, 10)
           named == ~k.nan /\ k.n > 0 /\ req[p].param = NumToStr(k.n)
           Stored(coll) == \E i \in 1..Len(coll) :
                             /\ coll[i].userEmail = u
                             /\ \/ coll[i].movieId = Num(k.n)
                                \/ coll[i].movieKey = NumToStr(k.n)
           ends == pc[p] # "idle" /\ pc'[p] = "idle"
       IN (ends /\ u # <<>>)
            => /\ req[p].kind = "wlstatus" => last'.status = 200
               /\ (req[p].kind = "wlstatus" /\ named)
                    => last'.flag = Stored(watchlists)
               /\ (req[p].kind = "wlstatus" /\ Trim(req[p].param) = <<>>)
                    => ~last'.flag
               /\ (req[p].kind = "wlremove" /\ named /\ last'.status = 200)
                    => ~Stored(watchlists')
               /\ (req[p].kind = "wladd" /\ named /\ last'.status = 201)
                    => Stored(watchlists')]_vars


\* C19: a getNextMovieId call that finds no counter document after its
\* increment and after its re-read sets the counter to, and returns, the
\* highest integer id stored plus 1 (1 when no movie has one), a value above
\* the id of every stored movie; the next call of a client that sends one
\* request at a time returns that value plus 1 when the counter document was
\* not removed in between.
C19_RecoveryFromScan ==
  /\ [][\A p \in Procs :
          (pc[p] = "alloc_set" /\ pc'[p] = "add_insert")
            => LET ids == {movies[i].id.n :
                             i \in {j \in 1..Len(movies) : movies[j].id.t = "num"}}
                   n == loc'[p].n
               IN /\ n = Num(IF ids = {} THEN 1 ELSE Max(ids) + 1)
                  /\ counters' = <<n>>
                  /\ \A i \in 1..Len(movies) :
                       movies[i].id # Undef => Twice(movies[i].id) < Twice(n)]_vars
  /\ []( ( /\ AllIdle
           /\ recovered # Undef
           /\ client.prevReq.kind = "add"
           /\ client.prevResp.status = 201
           /\ client.prevResp.doc.id = recovered
           /\ client.cur.kind = "add"
           /\ last.kind = "add"
           /\ last.status = 201 )
         => last.doc.id = Num(recovered.n + 1) )

\* the call after a recovery from the scan has returned the recovered value
\* plus 1, with a movie stored before the recovery
C19_Witness ==
  /\ AllIdle
  /\ recovered # Undef
  /\ recovered.n > 1
  /\ client.prevReq.kind = "add"
  /\ client.prevResp.status = 201
  /\ client.prevResp.doc.id = recovered
  /\ client.cur.kind = "add"
  /\ last.kind = "add"
  /\ last.status = 201
  /\ last.doc.id = Num(recovered.n + 1)


\* C17: for every stored movie record, whatever the shapes of its id and _id
\* (a number, also zero, negative or fractional; an ObjectId; a numeric
\* string; a 24-character hex string; another string; absent),
\* convertMovieToIntegerId gives a record whose _id and id are the same
\* integer of at least 1: the stored id when that is such an integer, and 1
\* when neither field is there.  Read off the list GET /movies sends.
C17_ConvertedIdIsPositiveInteger ==
  last.kind = "list"
    => /\ last.status = 200
       /\ Len(last.list) = Len(movies)
       /\ \A k \in 1..Len(last.list) :
            LET out == last.list[k].doc
            IN /\ out._id = out.id
               /\ out.id.t = "num"
               /\ out.id.n >= 1
               /\ (movies[k].id.t = "num" /\ movies[k].id.n >= 1)
                    => out.id = movies[k].id
               /\ (movies[k].id = Undef /\ movies[k]._id = Undef)
                    => out.id = Num(1)


\* C14: under any interleaving of POST /users/create-or-update requests, also
\* of two first requests with the same email that both find no user before
\* either inserts, the users collection holds at most one document per email.
C14_OneUserPerEmail ==
  \A i, j \in 1..Len(users) : users[i].email = users[j].email => i = j

\* C15: every step that ends a request sends one response, of that request,
\* and no other step sends one; a step in which the storage call of a
\* request throws ends the request with 500 and a message, but with 200 when
\* the error is the duplicate key (code 11000) of a watchlist add.
C15_ThrownErrorIsAnswered ==
  [][/\ (\A p \in Procs : pc[p] = "idle" \/ pc'[p] # "idle") => last' = last
     /\ \A p \in Procs :
          /\ (pc[p] # "idle" /\ pc'[p] = "idle")
               => /\ last'.kind = req[p].kind
                  /\ last'.status \in {200, 201, 400, 401, 403, 404, 500}
          /\ (thrown' # thrown /\ (pc'[p] # pc[p] \/ loc'[p] # loc[p]))
               => /\ pc'[p] = "idle"
                  /\ IF req[p].kind = "wladd" /\ thrown'[Len(thrown')] = 11000
                     THEN last'.status = 200
                     ELSE last'.status = 500 /\ last'.msg # ""]_vars

=============================================================================
